---- MODULE Spec2Model ----
(***************************************************************************)
(* Model of the outer solver of mpc.pytorch: MPC.__init__ and MPC.forward  *)
(* of src/mpc/mpc.py.                                                      *)
(*                                                                         *)
(* A tensor indexed by batch element is a function over 1..n_batch.  Costs *)
(* and full-control-step norms are integers; the threshold eps and the     *)
(* margin best_cost_eps are integers on the same scale.  One control       *)
(* component per batch element stands for every (t, k) component of u:     *)
(* forward treats the components of u[:, j] alike.  The state trajectory x *)
(* of an iterate is identified by the number of the outer iteration whose  *)
(* LQR step produced it.  An absent (None) value is the empty sequence and *)
(* a present value v is <<v>>.                                             *)
(***************************************************************************)
EXTENDS Integers, Sequences, FiniteSets, TLC

\* Largest cost an LQR step reports.
MaxCost == 2

None == << >>
Some(v) == << v >>
Val(o) == o[1]

Batch(n) == 1..n

Max(S) == CHOOSE m \in S : \A v \in S : v <= m
Range(f) == {f[j] : j \in DOMAIN f}

VARIABLES
    cfg,             \* the fields of self set by __init__ from its arguments
    arg,             \* the arguments of the forward call: the shape of C
    pc,              \* where the program is
    err,             \* the error raised, "none" while there is none
    n_batch,         \* forward's local n_batch, 0 before it is inferred
    u,               \* forward's local u: the current control iterate
    i,               \* outer iterations completed
    n_not_improved,  \* forward's local n_not_improved
    best,            \* forward's local best; NoBest while it is None
    for_out,         \* for_out of the latest LQR step
    calls,           \* solve_lqr_subproblem invocations, by no_op_forward
    final_point,     \* current_x, current_u handed to the no-op LQR step
    ret,             \* what forward returned; NoRet before it returns
    solo,            \* the loop state of a second forward call that solves
                     \* batch element 1's problem alone (C of batch size 1)
    hist             \* what the LQR step of each outer iteration gave, in
                     \* order; kept by HistIteration only

vars == <<cfg, arg, pc, err, n_batch, u, i, n_not_improved, best, for_out,
          calls, final_point, ret, solo, hist>>

NoBest == [x |-> << >>, u |-> << >>, costs |-> << >>, full_du_norm |-> << >>]
NoForOut == [costs |-> << >>, full_du_norm |-> << >>]
NoPoint == [x |-> << >>, u |-> << >>]
NoRet == [x |-> << >>, u |-> << >>, costs |-> << >>, detached |-> << >>]
LoopStart(pos) ==
    [pc |-> pos, i |-> 0, n_not_improved |-> 0, best |-> NoBest,
     for_out |-> NoForOut, u |-> << >>]

(***************************************************************************)
(* The LQR step (lqr_step.py, util.py).                                    *)
(***************************************************************************)

\* util.eclamp: elementwise clamp into [lo, hi].
eclamp(v, lo, hi) == IF v < lo THEN lo ELSE IF v > hi THEN hi ELSE v

\* The forward rollout of LQRStep clips each new control into the box when
\* box bounds are configured.
ClipToBox(raw) ==
    IF cfg.u_lower = None THEN raw
    ELSE eclamp(raw, Val(cfg.u_lower), Val(cfg.u_upper))

\* Control values the rollout can produce before clipping.
RawU == {0 - 2, 2}

\* Full-control-step norms an LQR step can report: below, at and above eps.
FullDuNorms == {cfg.eps - 1, cfg.eps, cfg.eps + 1}

Costs == 0..MaxCost

\* What one LQRStep call with no_op_forward=False can give for a batch of
\* nb elements: the new controls and for_out.
LQRStepOutcomes(nb) ==
    [u : [Batch(nb) -> {ClipToBox(r) : r \in RawU}],
     costs : [Batch(nb) -> Costs],
     full_du_norm : [Batch(nb) -> FullDuNorms]]

\* An LQRStep call with no_op_forward=True returns its expansion point.
LQRStepNoOp(current_x, current_u) == [x |-> current_x, u |-> current_u]

(***************************************************************************)
(* MPC.forward, the outer loop.                                            *)
(***************************************************************************)

\* The improvement test with the comparison turned around.
ImprovedFlipped(new_cost, best_cost) == new_cost >= best_cost - cfg.best_cost_eps

\* The improvement test with a strict comparison.
ImprovedStrict(new_cost, best_cost) == new_cost < best_cost - cfg.best_cost_eps

\* Line 224: the improvement test of batch element j.
Improved(new_cost, best_cost) == new_cost <= best_cost - cfg.best_cost_eps

\* The first record takes the controls the step started from.
UpdateBestStale(b, k, o, nb) ==
    IF b = NoBest
    THEN [x |-> [j \in Batch(nb) |-> k], u |-> u,
          costs |-> o.costs, full_du_norm |-> o.full_du_norm]
    ELSE LET I == {j \in Batch(nb) : Improved(o.costs[j], b.costs[j])}
         IN [x |-> [j \in Batch(nb) |-> IF j \in I THEN k ELSE b.x[j]],
             u |-> [j \in Batch(nb) |-> IF j \in I THEN o.u[j] ELSE b.u[j]],
             costs |-> [j \in Batch(nb) |->
                           IF j \in I THEN o.costs[j] ELSE b.costs[j]],
             full_du_norm |-> [j \in Batch(nb) |->
                           IF j \in I THEN o.full_du_norm[j]
                           ELSE b.full_du_norm[j]]]

\* A replacement that leaves the recorded norm as it was.
UpdateBestKeepsNorm(b, k, o, nb) ==
    IF b = NoBest
    THEN [x |-> [j \in Batch(nb) |-> k], u |-> o.u,
          costs |-> o.costs, full_du_norm |-> o.full_du_norm]
    ELSE LET I == {j \in Batch(nb) : Improved(o.costs[j], b.costs[j])}
         IN [x |-> [j \in Batch(nb) |-> IF j \in I THEN k ELSE b.x[j]],
             u |-> [j \in Batch(nb) |-> IF j \in I THEN o.u[j] ELSE b.u[j]],
             costs |-> [j \in Batch(nb) |->
                           IF j \in I THEN o.costs[j] ELSE b.costs[j]],
             full_du_norm |-> b.full_du_norm]

\* Lines 215-229: the best record after an iterate (x tagged k, controls and
\* for_out in o) has been looked at.
UpdateBest(b, k, o, nb) ==
    IF b = NoBest
    THEN [x |-> [j \in Batch(nb) |-> k], u |-> o.u,
          costs |-> o.costs, full_du_norm |-> o.full_du_norm]
    ELSE LET I == {j \in Batch(nb) : Improved(o.costs[j], b.costs[j])}
         IN [x |-> [j \in Batch(nb) |-> IF j \in I THEN k ELSE b.x[j]],
             u |-> [j \in Batch(nb) |-> IF j \in I THEN o.u[j] ELSE b.u[j]],
             costs |-> [j \in Batch(nb) |->
                           IF j \in I THEN o.costs[j] ELSE b.costs[j]],
             full_du_norm |-> [j \in Batch(nb) |->
                           IF j \in I THEN o.full_du_norm[j]
                           ELSE b.full_du_norm[j]]]

\* n_not_improved reset only when every element improved.
UpdateNotImprovedAll(n, b, o, nb) ==
    IF b # NoBest /\ \A j \in Batch(nb) : Improved(o.costs[j], b.costs[j])
    THEN 0
    ELSE n + 1

\* Lines 210, 222-225: n_not_improved after the iterate has been looked at.
UpdateNotImproved(n, b, o, nb) ==
    IF b # NoBest /\ \E j \in Batch(nb) : Improved(o.costs[j], b.costs[j])
    THEN 0
    ELSE n + 1

\* Lines 243-245: the break test of the outer loop.
StopTest(norms, n) ==
    Max(Range(norms)) < cfg.eps \/ n > cfg.not_improved_lim

\* A loop that runs once too often.
LoopHasNextOffByOne(k) == k <= cfg.lqr_iter

\* Line 193: the loop runs while iterations are left.
LoopHasNext(k) == k < cfg.lqr_iter

\* Lines 193-245: one pass through the loop body from loop state s with the
\* LQR step giving o.
LoopBody(s, o, nb) ==
    LET k == s.i + 1
        b == UpdateBest(s.best, k, o, nb)
        n == UpdateNotImproved(s.n_not_improved, s.best, o, nb)
        fo == [costs |-> o.costs, full_du_norm |-> o.full_du_norm]
    IN [i |-> k, n_not_improved |-> n, best |-> b, for_out |-> fo, u |-> o.u,
        pc |-> IF StopTest(o.full_du_norm, n) \/ ~LoopHasNext(k)
               THEN "final" ELSE "loop"]

(***************************************************************************)
(* Configurations.                                                         *)
(***************************************************************************)

BaseCfg ==
    [u_lower |-> Some(0), u_upper |-> Some(0), u_init |-> None,
     lqr_iter |-> 3, eps |-> 1, n_batch |-> None, x_batch |-> 2,
     max_linesearch_iter |-> 1,
     exit_unconverged |-> TRUE, detach_unconverged |-> TRUE,
     not_improved_lim |-> 1, best_cost_eps |-> 1]

BaseArg == [C_ndim |-> 4, C_batch |-> 2]

\* The default options (exit and detach on), one stalled iteration tolerated,
\* a margin of one cost unit and a budget of three iterations.
DefaultCfgs == {BaseCfg}

\* Every combination of the options the outer loop and the return path read,
\* with a budget of one or two iterations.
LoopCfgs ==
    {[BaseCfg EXCEPT !.exit_unconverged = e, !.detach_unconverged = d,
                     !.best_cost_eps = m, !.not_improved_lim = l,
                     !.lqr_iter = k] :
        e \in BOOLEAN, d \in BOOLEAN, m \in {0, 1}, l \in {0, 1},
        k \in {1, 2}}

\* A box of width two, where the controls of two iterates can differ.
WideBoxCfgs ==
    {[BaseCfg EXCEPT !.u_lower = Some(0 - 1), !.u_upper = Some(1),
                     !.lqr_iter = 2]}

\* Configurations __init__ or the entry of forward rejects, and one that
\* asks for no iteration at all.
EdgeCfgs ==
    {[BaseCfg EXCEPT !.u_upper = None],
     [BaseCfg EXCEPT !.max_linesearch_iter = 0],
     [BaseCfg EXCEPT !.x_batch = 1],
     [BaseCfg EXCEPT !.lqr_iter = 0]}

InitWith(cfgs, args, solo_pos) ==
    /\ solo = LoopStart(solo_pos)
    /\ hist = << >>
    /\ cfg \in cfgs
    /\ arg \in args
    /\ pc = "new"
    /\ err = "none"
    /\ n_batch = 0
    /\ u = << >>
    /\ i = 0
    /\ n_not_improved = 0
    /\ best = NoBest
    /\ for_out = NoForOut
    /\ calls = [step |-> 0, noop |-> 0]
    /\ final_point = NoPoint
    /\ ret = NoRet

Init ==
    InitWith(DefaultCfgs \cup LoopCfgs \cup WideBoxCfgs \cup EdgeCfgs,
             {BaseArg}, "off")

(***************************************************************************)
(* MPC.__init__                                                            *)
(***************************************************************************)

\* Lines 106-107: the assertions of __init__.
InitAsserts(c) ==
    /\ (c.u_lower = None) = (c.u_upper = None)
    /\ c.max_linesearch_iter > 0

Construct ==
    /\ pc = "new"
    /\ IF InitAsserts(cfg)
       THEN pc' = "constructed" /\ err' = err
       ELSE pc' = "raised" /\ err' = "AssertionError"
    /\ UNCHANGED <<cfg, arg, n_batch, u, i, n_not_improved, best, for_out,
                   calls, final_point, ret, solo, hist>>

(***************************************************************************)
(* MPC.forward                                                             *)
(***************************************************************************)

\* A batch size that falls back on the batch size of x_init.
InferBatchFromX(a, c) ==
    IF a.C_ndim = 4 THEN Some(a.C_batch)
    ELSE IF c.n_batch # None THEN c.n_batch
    ELSE Some(c.x_batch)

\* Lines 159-164: the batch size, None when it cannot be inferred.
InferBatch(a, c) ==
    IF a.C_ndim = 4 THEN Some(a.C_batch)
    ELSE IF c.n_batch # None THEN c.n_batch
    ELSE None

\* Lines 174-180: the initial control sequence.
InitialU(c, nb) ==
    [j \in Batch(nb) |-> IF c.u_init = None THEN 0 ELSE Val(c.u_init)]

\* Lines 159-192: up to the outer loop.
ForwardEntry ==
    /\ pc = "constructed"
    /\ LET nb == InferBatch(arg, cfg)
       IN IF nb = None \/ cfg.x_batch # Val(nb)
          THEN /\ pc' = "raised"
               /\ err' = "AssertionError"
               /\ UNCHANGED <<n_batch, u>>
          ELSE /\ n_batch' = Val(nb)
               /\ u' = InitialU(cfg, Val(nb))
               /\ pc' = IF LoopHasNext(0) THEN "loop" ELSE "final"
               /\ err' = err
    /\ UNCHANGED <<cfg, arg, i, n_not_improved, best, for_out, calls,
                   final_point, ret, solo, hist>>

\* Lines 193-245: one outer iteration, the LQR step giving o.
Iterate(o) ==
    /\ pc = "loop"
    /\ LET s == LoopBody([i |-> i, n_not_improved |-> n_not_improved,
                          best |-> best], o, n_batch)
       IN /\ i' = s.i
          /\ n_not_improved' = s.n_not_improved
          /\ best' = s.best
          /\ for_out' = s.for_out
          /\ u' = s.u
          /\ pc' = s.pc
    /\ calls' = [calls EXCEPT !.step = @ + 1]
    /\ UNCHANGED <<cfg, arg, err, n_batch, final_point, ret>>

LqrIteration ==
    /\ pc = "loop"
    /\ \E o \in LQRStepOutcomes(n_batch) : Iterate(o)
    /\ UNCHANGED <<solo, hist>>

\* Lines 247-248: the expansion point of the final pass.
FinalExpansion(b, cur_u) == [x |-> b.x, u |-> b.u]

\* Lines 247-255: the final LQR step, in no-op-forward mode.
FinalPass ==
    /\ pc = "final"
    /\ IF best = NoBest
       THEN /\ pc' = "raised"
            /\ err' = "TypeError"
            /\ UNCHANGED <<u, calls, final_point>>
       ELSE LET p == FinalExpansion(best, u)
                r == LQRStepNoOp(p.x, p.u)
            IN /\ final_point' = p
               /\ u' = r.u
               /\ calls' = [calls EXCEPT !.noop = @ + 1]
               /\ pc' = "post"
               /\ err' = err
    /\ UNCHANGED <<cfg, arg, n_batch, i, n_not_improved, best, for_out, ret,
                   solo, hist>>

\* Line 258: some element of the best record did not converge.
BestUnconverged(b) == Max(Range(b.full_du_norm)) > cfg.eps

\* Lines 257-260: the convergence error is raised.
RaisesUnconverged(c, b) ==
    c.detach_unconverged /\ BestUnconverged(b) /\ c.exit_unconverged

\* Lines 266-270: the elements whose outputs are detached.
DetachMask(c, b, fo, nb) ==
    [j \in Batch(nb) |->
        /\ c.detach_unconverged
        /\ BestUnconverged(b)
        /\ ~(fo.full_du_norm[j] < c.eps)]

\* Lines 257-273: the unconverged check and the return.
PostCheck ==
    /\ pc = "post"
    /\ IF RaisesUnconverged(cfg, best)
       THEN pc' = "raised" /\ err' = "ConvergenceError" /\ ret' = ret
       ELSE /\ pc' = "returned"
            /\ err' = err
            /\ ret' = [x |-> final_point.x, u |-> u, costs |-> best.costs,
                       detached |-> DetachMask(cfg, best, for_out, n_batch)]
    /\ UNCHANGED <<cfg, arg, n_batch, u, i, n_not_improved, best, for_out,
                   calls, final_point, solo, hist>>

Next ==
    \/ Construct
    \/ ForwardEntry
    \/ LqrIteration
    \/ FinalPass
    \/ PostCheck

Spec == Init /\ [][Next]_vars

(***************************************************************************)
(* Entry: the shapes and options the entry of forward looks at.            *)
(***************************************************************************)

Optional(S) == {None} \cup {Some(v) : v \in S}

EntryCfgs ==
    {[BaseCfg EXCEPT !.u_lower = lo, !.u_upper = hi, !.n_batch = nb,
                     !.x_batch = xb, !.lqr_iter = 1] :
        lo \in Optional({0}), hi \in Optional({0}),
        nb \in Optional({1, 2}), xb \in {1, 2}}

EntryArgs == [C_ndim : {3, 4}, C_batch : {1, 2}]

InitEntry == InitWith(EntryCfgs, EntryArgs, "off")

SpecEntry == InitEntry /\ [][Next]_vars

(***************************************************************************)
(* Box: box bounds and warm starts.                                        *)
(***************************************************************************)

BoxCfgs ==
    {[BaseCfg EXCEPT !.u_lower = b[1], !.u_upper = b[2], !.u_init = w,
                     !.exit_unconverged = e, !.lqr_iter = 2] :
        b \in {<<Some(0 - 1), Some(1)>>}, w \in Optional({3}),
        e \in BOOLEAN}
    \cup {[BaseCfg EXCEPT !.u_lower = None, !.u_upper = None,
                          !.u_init = Some(3), !.lqr_iter = 1]}

InitBox == InitWith(BoxCfgs, {BaseArg}, "off")

SpecBox == InitBox /\ [][Next]_vars

(***************************************************************************)
(* Pair: a batch of two problems, and the first of them solved alone.  The *)
(* LQR step works on each batch element by itself, so as long as both      *)
(* calls iterate they expand element 1 at the same point and get the same  *)
(* outcome for it.                                                         *)
(***************************************************************************)

\* Element 1 of a batch outcome, as the outcome of a batch of one.
Alone(o) ==
    [u |-> << o.u[1] >>, costs |-> << o.costs[1] >>,
     full_du_norm |-> << o.full_du_norm[1] >>]

\* One outer iteration of the batch call; the solo call makes the same
\* iteration when it is still in its loop.  The solo call never outlasts the
\* batch call: each break test that holds for the batch holds for element 1
\* alone.
PairIteration ==
    /\ pc = "loop"
    /\ \E o \in LQRStepOutcomes(n_batch) :
         /\ Iterate(o)
         /\ solo' = IF solo.pc = "loop" THEN LoopBody(solo, Alone(o), 1)
                    ELSE solo
    /\ UNCHANGED hist

PairCfgs ==
    {[BaseCfg EXCEPT !.exit_unconverged = FALSE, !.not_improved_lim = l,
                     !.lqr_iter = 2] : l \in {0, 1}}

InitPair == InitWith(PairCfgs, {BaseArg}, "loop")

NextPair ==
    \/ Construct
    \/ ForwardEntry
    \/ PairIteration
    \/ FinalPass
    \/ PostCheck

SpecPair == InitPair /\ [][NextPair]_vars

(***************************************************************************)
(* History: the outer loop with the outcome of every LQR step kept, so     *)
(* that a field of the best record can be traced to the iteration it came  *)
(* from.                                                                   *)
(***************************************************************************)

\* One outer iteration, its LQR-step outcome appended to hist.
HistIteration ==
    /\ pc = "loop"
    /\ \E o \in LQRStepOutcomes(n_batch) :
         /\ Iterate(o)
         /\ hist' = Append(hist, o)
    /\ UNCHANGED solo

\* A batch of two with two iterations under a box of width two, with both
\* settings of exit_unconverged.
HistCfgs ==
    {[c EXCEPT !.exit_unconverged = e] : c \in WideBoxCfgs, e \in BOOLEAN}

\* A batch of one with three iterations under the same box, where a record
\* can be replaced twice, or replaced and then kept.
HistLongCfgs ==
    {[c EXCEPT !.exit_unconverged = e, !.lqr_iter = 3, !.x_batch = 1] :
        c \in WideBoxCfgs, e \in BOOLEAN}

HistLongArg == [C_ndim |-> 4, C_batch |-> 1]

InitHist ==
    \/ InitWith(HistCfgs, {BaseArg}, "off")
    \/ InitWith(HistLongCfgs, {HistLongArg}, "off")

NextHist ==
    \/ Construct
    \/ ForwardEntry
    \/ HistIteration
    \/ FinalPass
    \/ PostCheck

SpecHist == InitHist /\ [][NextHist]_vars

(***************************************************************************)
(* Properties.                                                             *)
(***************************************************************************)

\* A step that is one outer iteration after the first.
LaterIteration == best # NoBest /\ i' = i + 1

\* Element j's whole best record.
Record(b, j) ==
    [x |-> b.x[j], u |-> b.u[j], costs |-> b.costs[j],
     full_du_norm |-> b.full_du_norm[j]]

\* C1: for every batch element the cost held in the best record never
\* increases from one outer iteration to the next.
C1_BestCostNonIncreasing ==
    [][LaterIteration =>
         \A j \in Batch(n_batch) : best'.costs[j] <= best.costs[j]]_vars

\* C1 witness: after two iterations element 1 has adopted the second
\* iterate, and element 2 has kept its first record although the second
\* iterate offered it another cost, a higher one.
C1_Witness ==
    /\ i = 2
    /\ best.x[1] = 2
    /\ best.x[2] = 1
    /\ for_out.costs[2] > best.costs[2]

\* The stall count a counter kept for element j alone would hold: the
\* iterations since j's record was last replaced, the first iteration
\* counting as one.
ElemNotImproved(j) == IF best.x[j] = 1 THEN i ELSE i - best.x[j]

Adopted(j) ==
    Record(best', j) = [x |-> i', u |-> u'[j], costs |-> for_out'.costs[j],
                        full_du_norm |-> for_out'.full_du_norm[j]]

\* C4 as stated: after the first iteration, element j's record is replaced
\* exactly when the new cost is below the best cost minus best_cost_eps,
\* and is left unchanged otherwise.
C4_Original ==
    [][LaterIteration =>
         \A j \in Batch(n_batch) :
            IF for_out'.costs[j] < best.costs[j] - cfg.best_cost_eps
            THEN Adopted(j)
            ELSE Record(best', j) = Record(best, j)]_vars

\* C4 amended: after the first iteration, element j's record is replaced
\* exactly when the new cost is at most the best cost minus best_cost_eps,
\* so an improvement of exactly best_cost_eps replaces it; otherwise the
\* record of j is left unchanged.
C4_ReplacedIffImproved ==
    [][LaterIteration =>
         \A j \in Batch(n_batch) :
            IF for_out'.costs[j] <= best.costs[j] - cfg.best_cost_eps
            THEN Adopted(j)
            ELSE Record(best', j) = Record(best, j)]_vars

\* C4 witness: with a margin of 1, element 1 adopted the second iterate on
\* an improvement of exactly the margin (from the largest cost to one below
\* it), and element 2 kept its record, controls included, when the second
\* iterate offered it other controls at the cost it already had.
C4_Witness ==
    /\ cfg.best_cost_eps = 1
    /\ i = 2
    /\ best.x[1] = 2
    /\ best.costs[1] = MaxCost - 1
    /\ best.x[2] = 1
    /\ for_out.costs[2] = best.costs[2]
    /\ u[2] # best.u[2]

\* forward has run through its final pass.
PastFinalPass ==
    pc \in {"post", "returned"} \/ (pc = "raised" /\ err = "ConvergenceError")

\* C5 as stated: with exit_unconverged enabled forward never returns when
\* some element ended above eps (here: both in the best record and in the
\* latest iterate), whatever detach_unconverged is.
C5_Original ==
    (pc = "returned" /\ cfg.exit_unconverged) =>
        ~ \E j \in Batch(n_batch) :
              /\ best.full_du_norm[j] > cfg.eps
              /\ for_out.full_du_norm[j] > cfg.eps

\* C6 as stated: on the tolerated path the detached elements are exactly
\* those whose norm in the best record exceeds eps.
C6_Original ==
    (pc = "returned" /\ ~cfg.exit_unconverged /\ cfg.detach_unconverged) =>
        \A j \in Batch(n_batch) :
            ret.detached[j] <=> best.full_du_norm[j] > cfg.eps

\* C9: with lqr_iter >= 1 the loop ends after at least one and at most
\* lqr_iter LQR steps; no no-op LQR step is made before the loop has ended;
\* and once forward has returned or raised the convergence error exactly one
\* no-op LQR step has been made, expanded at the best record.
C9_LoopThenOneFinalPass ==
    cfg.lqr_iter >= 1 =>
        /\ calls.step <= cfg.lqr_iter
        /\ pc = "loop" => calls.step < cfg.lqr_iter
        /\ pc \in {"new", "constructed", "loop", "final"} => calls.noop = 0
        /\ pc = "final" => calls.step >= 1
        /\ PastFinalPass =>
              /\ calls.step >= 1
              /\ calls.noop = 1
              /\ final_point = [x |-> best.x, u |-> best.u]

\* C9 witness: the convergence error is raised after all three iterations of
\* the budget and the final pass, the best record of element 1 being older
\* than the last iterate.
C9_Witness ==
    /\ pc = "raised"
    /\ err = "ConvergenceError"
    /\ calls = [step |-> 3, noop |-> 1]
    /\ best.x[1] = 1

\* C10 as stated: when the loop ended with every element's latest norm below
\* eps, forward does not raise the convergence error and detaches nothing.
C10_Original ==
    (calls.step >= 1 /\ pc \in {"returned", "raised"}
       /\ \A j \in Batch(n_batch) : for_out.full_du_norm[j] < cfg.eps) =>
        /\ err # "ConvergenceError"
        /\ pc = "returned" => \A j \in Batch(n_batch) : ~ret.detached[j]

\* C2: when box bounds are configured, every control forward returns lies
\* in [u_lower, u_upper], whatever the warm start and on both return paths.
C2_ReturnedControlsInBox ==
    (pc = "returned" /\ cfg.u_lower # None) =>
        \A j \in Batch(n_batch) :
            /\ Val(cfg.u_lower) <= ret.u[j]
            /\ ret.u[j] <= Val(cfg.u_upper)

\* C2 witness: forward started from a warm start above the box and returned
\* on the detach-and-warn path, one control at each bound.
C2_Witness ==
    /\ pc = "returned"
    /\ cfg.u_lower # None
    /\ cfg.u_init # None
    /\ Val(cfg.u_init) > Val(cfg.u_upper)
    /\ \E j \in Batch(n_batch) : ret.detached[j]
    /\ ret.u = << Val(cfg.u_upper), Val(cfg.u_lower) >>

\* C7 as stated, for the results: once both calls have left their loops,
\* the batch call holds for element 1 the trajectory and cost the solo call
\* holds, and reports it converged exactly when the solo call does.
C7_Original ==
    (solo.pc = "final" /\ pc \in {"final", "post", "returned", "raised"}
       /\ best # NoBest) =>
        /\ Record(best, 1) = Record(solo.best, 1)
        /\ best.full_du_norm[1] > cfg.eps
              <=> solo.best.full_du_norm[1] > cfg.eps

\* No LQR step has been made, in either mode, and no record exists.
NothingSolved == calls = [step |-> 0, noop |-> 0] /\ best = NoBest

\* C8: a configuration error is raised before any LQR step.  A constructor
\* given exactly one of u_lower and u_upper fails; forward fails when C has
\* no batch dimension and n_batch is not configured; and when C has four
\* dimensions the batch size is C's, and a missing n_batch raises nothing.
C8_ConfigErrorsAtEntry ==
    /\ (pc = "raised" /\ err = "AssertionError") => NothingSolved
    /\ (pc # "new" /\ (cfg.u_lower = None) # (cfg.u_upper = None)) =>
          pc = "raised" /\ err = "AssertionError"
    /\ (pc \notin {"new", "constructed"} /\ arg.C_ndim # 4
          /\ cfg.n_batch = None) =>
          pc = "raised" /\ err = "AssertionError"
    /\ (pc \notin {"new", "constructed", "raised"} /\ arg.C_ndim = 4) =>
          n_batch = arg.C_batch
    /\ (pc \notin {"new", "constructed"} /\ arg.C_ndim = 4
          /\ cfg.n_batch = None /\ cfg.x_batch = arg.C_batch
          /\ (cfg.u_lower = None) = (cfg.u_upper = None)) =>
          err # "AssertionError"

\* C8 witness: forward has failed at its entry on a C without batch
\* dimension, n_batch not being configured, under valid box bounds.
C8_Witness ==
    /\ pc = "raised"
    /\ err = "AssertionError"
    /\ arg.C_ndim = 3
    /\ cfg.n_batch = None
    /\ cfg.u_lower # None
    /\ cfg.u_upper # None
    /\ NothingSolved

\* The iteration whose iterate element j's record should hold after k
\* iterations with outcomes h: the first, or the latest one whose cost passed
\* the improvement test against the cost recorded before it.
RECURSIVE LastAdopted(_, _, _)
LastAdopted(h, j, k) ==
    IF k = 1 THEN 1
    ELSE LET t == LastAdopted(h, j, k - 1)
         IN IF h[k].costs[j] <= h[t].costs[j] - cfg.best_cost_eps
            THEN k ELSE t

\* C11: after every outer iteration the four fields of element j's best
\* record are those of one iteration's LQR step, the first iteration or the
\* latest in which j passed the improvement test; that iteration depends on
\* j's own costs alone, so replacing another element's record leaves j's
\* as it was; and the costs forward returns are the recorded costs of the
\* iterates the final pass was expanded at.
C11_RecordFromOneIteration ==
    /\ i = Len(hist)
    /\ best # NoBest =>
          \A j \in Batch(n_batch) :
             LET t == LastAdopted(hist, j, i)
             IN Record(best, j) =
                   [x |-> t, u |-> hist[t].u[j], costs |-> hist[t].costs[j],
                    full_du_norm |-> hist[t].full_du_norm[j]]
    /\ pc = "returned" =>
          \A j \in Batch(n_batch) :
             /\ final_point.x[j] = LastAdopted(hist, j, i)
             /\ final_point.u[j] = hist[final_point.x[j]].u[j]
             /\ ret.costs[j] = hist[final_point.x[j]].costs[j]

\* C11 witness: forward has returned from a batch of two after two
\* iterations; element 2 holds the second iterate and element 1 still holds
\* the first, having turned down a second one with other controls, another
\* cost and another norm.
C11_Witness ==
    /\ pc = "returned"
    /\ i = 2
    /\ best.x = << 1, 2 >>
    /\ hist[2].u[1] # best.u[1]
    /\ hist[2].costs[1] # best.costs[1]
    /\ hist[2].full_du_norm[1] # best.full_du_norm[1]

====
